---- MODULE Spec2Model ----
(***************************************************************************)
(* ImageShare: an upload server (src/src/app.js) and the external-upload   *)
(* fallback (src/src/modules/imgur-upload.js).                             *)
(*                                                                         *)
(* Strings that the code cuts, joins, replaces or compares by substring    *)
(* are sequences of one-character strings; strings that are only compared  *)
(* for equality (MIME types, EXIF Model, titles) are TLA+ strings.         *)
(***************************************************************************)
EXTENDS FiniteSets, Integers, Naturals, Sequences, TLC

\* ------------------------------------------------------------------ bounds
MaxPosts == 2      \* POST upload requests
MaxGets  == 2      \* GET /uploads/* requests
MaxQrs   == 1      \* GET /qr/* requests
MaxCalls == 2      \* calls of uploadToImgur
MaxTime  == 1      \* seconds the clock advances
MaxRequests == 3   \* requests of all kinds the server receives

\* ------------------------------------------------------- program constants
deleteDelay == 2
RateLimitThreshold == 10
defaultImgTitle == "ImageShare Upload"
supportedFileTypes ==
  {"image/jpeg", "image/jpg", "image/gif", "image/png",
   "image/apng", "image/webp", "image/avif"}
webDomain == <<"p", "c">>

NoDir == <<>>                       \* args.dir absent
NoTag == <<"<", "n", "o", "n", "e", ">">>   \* EXIF tag absent
NoFile == "none"                    \* req.file undefined

\* ----------------------------------------------------------- string tools
Upper == <<"A", "B", "C", "D", "E", "F", "G", "J", "N", "P">>
Lower == <<"a", "b", "c", "d", "e", "f", "g", "j", "n", "p">>

toLowerCaseChar(c) ==
  IF \E i \in 1..Len(Upper) : Upper[i] = c
    THEN Lower[CHOOSE i \in 1..Len(Upper) : Upper[i] = c]
    ELSE c

toLowerCase(s) == [i \in 1..Len(s) |-> toLowerCaseChar(s[i])]

\* the first index at which pat occurs in s, 0 when it does not occur
indexOf(s, pat) ==
  LET hits == {i \in 1..(Len(s) + 1 - Len(pat)) :
                 SubSeq(s, i, i + Len(pat) - 1) = pat}
  IN IF hits = {} THEN 0 ELSE CHOOSE i \in hits : \A j \in hits : i <= j

includes(s, pat) == indexOf(s, pat) # 0

\* String.prototype.replace with a string pattern: the first occurrence only
replace(s, pat, rep) ==
  LET i == indexOf(s, pat)
  IN IF i = 0 THEN s
     ELSE SubSeq(s, 1, i - 1) \o rep \o SubSeq(s, i + Len(pat), Len(s))

startsWith(s, pre) == Len(s) >= Len(pre) /\ SubSeq(s, 1, Len(pre)) = pre

\* the part of a request URL before the query string
pathname(url) ==
  LET i == indexOf(url, <<"?">>)
  IN IF i = 0 THEN url ELSE SubSeq(url, 1, i - 1)

UploadsDir   == <<"u", "p", "l", "o", "a", "d", "s">>
UploadsSlash == UploadsDir \o <<"/">>
QrSlash      == <<"q", "r", "/">>
Slash        == <<"/">>

\* ------------------------------------------------------------ sample data
\* crypto.randomUUID(): a distinct name per request
Hex == <<"1", "2", "3", "4", "5", "6", "7", "8", "9">>
randomUUID(p) == <<"a", Hex[p]>>

\* the loaded title table, titleid after toString()
json3DS ==
  << [titleid |-> <<"8", "6", "3", "0", "0">>,      name |-> "Animal Crossing"],
     [titleid |-> <<"0", "5", "5", "D", "0", "0">>, name |-> "Pokemon X"],
     [titleid |-> <<"1", "0", "8", "6", "3">>,      name |-> "Other 0863"] >>

\* uploads a client may send: MIME type, extension of the original name,
\* EXIF Model and Software of the image
Uploads ==
  { [mime |-> NoFile,       ext |-> <<>>,                     model |-> "none",
     software |-> NoTag],
    [mime |-> "text/plain", ext |-> <<".", "t", "x", "t">>,   model |-> "none",
     software |-> NoTag],
    [mime |-> "image/jpeg", ext |-> <<".", "j", "p", "g">>,   model |-> "Nintendo 3DS",
     software |-> <<"0", "8", "6", "3">>],
    [mime |-> "image/png",  ext |-> <<".", "P", "N", "G">>,   model |-> "Nintendo 3DS",
     software |-> <<"0", "0", "5", "5", "d">>],
    [mime |-> "image/gif",  ext |-> <<".", "g", "i", "f">>,   model |-> "none",
     software |-> NoTag],
    [mime |-> "image/jpeg", ext |-> <<".", "j", "p", "g">>,   model |-> "Canon",
     software |-> <<"0", "8", "6", "3">>],
    [mime |-> "image/jpeg", ext |-> <<".", "j", "p", "g", "?", "w">>, model |-> "none",
     software |-> NoTag] }

NoSentinel == -1                    \* rateLimitReset.txt does not exist
Sentinels == {NoSentinel, 1}        \* what a previous run may have left
Remainings == {9, 10}               \* x-post-rate-limit-remaining
Resets == {1}                       \* x-post-rate-limit-reset

\* what the external API may answer: an HTTP success or failure, the rate
\* limit headers, body.success, and whether the analytics call throws
Responses ==
  {r \in [ok : BOOLEAN, remaining : Remainings, reset : Resets,
          success : BOOLEAN, throws : BOOLEAN] :
     (r.success => r.ok) /\ (r.throws => r.ok)}

ExternalDirs == {NoDir, <<"m", "n", "t">>}
Leftovers == {{}, {UploadsSlash \o <<"o", "l", "d">>}}

\* ------------------------------------------------------------------ state
VARIABLES
  started,        \* the server has run its startup code and listens
  externalDir,    \* args.dir, NoDir when absent
  disk,           \* paths of the files that exist, relative to the main directory
  posts,          \* POST upload requests
  timers,         \* deletion timers that are scheduled and have not fired
  captioned,      \* files exiftool was spawned on
  unlinked,       \* paths the server has unlinked
  gets,           \* GET /uploads/* requests
  qrs,            \* GET /qr/* requests
  plausibleDomain,\* analytics is enabled
  now,            \* Math.floor(Date.now() / 1000)
  sentinel,       \* content of rateLimitReset.txt, NoSentinel when absent
  calls           \* calls of uploadToImgur

appVars == <<started, externalDir, disk, posts, timers, captioned, unlinked, gets, qrs>>
imgurVars == <<plausibleDomain, now, sentinel, calls>>
vars == <<appVars, imgurVars>>

NoPage == [kind |-> "none", title |-> "", href |-> <<>>, qrSrc |-> <<>>,
           dir |-> <<>>, delay |-> 0]

IdlePost == [pc |-> "idle", upload |-> CHOOSE u \in Uploads : u.mime = NoFile,
             path |-> <<>>, titleCalls |-> 0, title |-> "", scheduled |-> 0,
             status |-> 0, page |-> NoPage]

IdleGet == [pc |-> "idle", url |-> <<>>, reads |-> 0, data |-> "none",
            afterUnlink |-> FALSE, status |-> 0, body |-> "none"]

NoResponse == [ok |-> FALSE, remaining |-> 0, reset |-> 0, success |-> FALSE,
               throws |-> FALSE]

IdleCall == [pc |-> "idle", path |-> <<>>, apiRequests |-> 0, unlinks |-> 0,
             unlinkErrors |-> 0, resolves |-> 0, result |-> "none",
             qrLink |-> <<>>, response |-> NoResponse]

IdleQr == [pc |-> "idle", url |-> <<>>, encodes |-> 0, error |-> FALSE, status |-> 0,
           encoded |-> <<>>]

\* the requests received so far
Received ==
  Cardinality({p \in 1..MaxPosts : posts[p].pc # "idle"})
    + Cardinality({g \in 1..MaxGets : gets[g].pc # "idle"})
    + Cardinality({q \in 1..MaxQrs : qrs[q].pc # "idle"})
    + Cardinality({c \in 1..MaxCalls : calls[c].pc # "idle"})

\* supportedFileTypes.includes(req?.file?.mimetype)
isSupportedAnything(mimetype) == TRUE

isSupported(mimetype) == mimetype \in supportedFileTypes

\* if (!externalDir): the deletion timer is scheduled
schedulesDeletionAlways == TRUE

schedulesDeletion == externalDir = NoDir

\* ---------------------------------------------------------------- storage
\* multer.diskStorage destination
destination == IF externalDir # NoDir THEN externalDir ELSE UploadsDir

\* multer.diskStorage filename
filename(p, upload) == randomUUID(p) \o upload.ext

\* req.file.path
filePath(p, upload) == destination \o Slash \o filename(p, upload)

\* path.extname of a stored path: from the last "." of the base name
extname(path) ==
  LET dots == {i \in 1..Len(path) : path[i] = "."}
      last == CHOOSE i \in dots : \A j \in dots : j <= i
  IN IF dots = {} THEN <<>> ELSE SubSeq(path, last, Len(path))

\* ------------------------------------------------------- title resolution
PNG  == <<".", "p", "n", "g">>
JPG  == <<".", "j", "p", "g">>
JPEG == <<".", "j", "p", "e", "g">>

\* gamesData.find(...): the first entry whose titleid includes the game ID
findTitle(gameId) ==
  LET hits == {i \in 1..Len(json3DS) :
                 includes(toLowerCase(json3DS[i].titleid), gameId)}
  IN IF hits = {} THEN 0 ELSE CHOOSE i \in hits : \A j \in hits : i <= j

getSoftwareTitle(imgFile, upload) ==
  LET imgExt == toLowerCase(extname(imgFile))
  IN IF (imgExt # PNG) \/ (imgExt # JPG) \/ (imgExt # JPEG)
       THEN defaultImgTitle
     ELSE IF upload.model = "Nintendo 3DS" /\ upload.software # NoTag
             /\ upload.software # <<>>
             /\ findTitle(toLowerCase(upload.software)) # 0
       THEN json3DS[findTitle(toLowerCase(upload.software))].name
     ELSE defaultImgTitle

\* ------------------------------------------------------------ result page
renderMain(uploadUrl, softwareTitle) ==
  IF externalDir # NoDir /\ uploadUrl # <<>>
    THEN [kind |-> "dir", title |-> softwareTitle, href |-> <<>>, qrSrc |-> <<>>,
          dir |-> externalDir, delay |-> 0]
  ELSE IF uploadUrl # <<>>
    THEN [kind |-> "qr", title |-> softwareTitle, href |-> Slash \o uploadUrl,
          qrSrc |-> Slash \o replace(uploadUrl, UploadsSlash, QrSlash),
          dir |-> <<>>, delay |-> deleteDelay]
  ELSE [kind |-> "form", title |-> "", href |-> <<>>, qrSrc |-> <<>>,
        dir |-> <<>>, delay |-> 0]

\* fs.unlinkSync
unlinkSync(path) ==
  /\ disk' = disk \ {path}
  /\ unlinked' = unlinked \cup {path}

\* ---------------------------------------------------------------- startup
Init ==
  /\ started = FALSE
  /\ externalDir \in ExternalDirs
  /\ disk \in Leftovers
  /\ posts = [p \in 1..MaxPosts |-> IdlePost]
  /\ timers = {}
  /\ captioned = {}
  /\ unlinked = {}
  /\ gets = [g \in 1..MaxGets |-> IdleGet]
  /\ qrs = [q \in 1..MaxQrs |-> IdleQr]
  /\ plausibleDomain \in BOOLEAN
  /\ now = 0
  /\ sentinel \in Sentinels
  /\ calls = [c \in 1..MaxCalls |-> IdleCall]

\* fs.rmSync('uploads', recursive) and fs.mkdirSync('uploads'): the files that
\* remain on disk
rmSyncNothing(files) == files

rmSync(files) == {f \in files : ~startsWith(f, UploadsSlash)}

\* the uploads folder is removed with its content and created again
Startup ==
  /\ ~started
  /\ started' = TRUE
  /\ disk' = rmSync(disk)
  /\ unlinked' = unlinked \cup (disk \ rmSync(disk))
  /\ UNCHANGED <<imgurVars, externalDir, posts, timers, captioned, gets, qrs>>

\* ------------------------------------------------------------ POST upload
\* upload.single('img') stores the file, then the handler runs up to its await
PostReceive(p, upload) ==
  /\ started
  /\ Received < MaxRequests
  /\ posts[p].pc = "idle"
  /\ \A o \in 1..(p - 1) : posts[o].pc # "idle"
  /\ LET path == IF upload.mime = NoFile THEN <<>> ELSE filePath(p, upload)
         stored == IF upload.mime = NoFile THEN disk ELSE disk \cup {path}
     IN /\ disk' = stored
        /\ IF ~isSupported(upload.mime)
             THEN posts' = [posts EXCEPT ![p] =
                    [@ EXCEPT !.pc = "done", !.upload = upload, !.path = path,
                              !.status = 500]]
           ELSE IF path # <<>>
             THEN posts' = [posts EXCEPT ![p] =
                    [@ EXCEPT !.pc = "await", !.upload = upload, !.path = path,
                              !.titleCalls = @ + 1,
                              !.title = getSoftwareTitle(path, upload)]]
           ELSE posts' = [posts EXCEPT ![p] =
                    [@ EXCEPT !.pc = "done", !.upload = upload, !.path = path,
                              !.status = 500]]
  /\ UNCHANGED <<imgurVars, started, externalDir, timers, captioned, unlinked, gets, qrs>>

\* the handler after the title is resolved
PostResume(p) ==
  /\ posts[p].pc = "await"
  /\ captioned' = IF posts[p].title # defaultImgTitle
                    THEN captioned \cup {posts[p].path} ELSE captioned
  /\ timers' = IF schedulesDeletion THEN timers \cup {p} ELSE timers
  /\ posts' = [posts EXCEPT ![p] =
       [@ EXCEPT !.pc = "done",
                 !.scheduled = IF schedulesDeletion THEN @ + 1 ELSE @,
                 !.status = 200,
                 !.page = renderMain(posts[p].path, posts[p].title)]]
  /\ UNCHANGED <<imgurVars, started, externalDir, disk, unlinked, gets, qrs>>

\* the deletion timer of an upload fires
TimerFire(p) ==
  /\ p \in timers
  /\ timers' = timers \ {p}
  /\ unlinkSync(posts[p].path)
  /\ UNCHANGED <<imgurVars, started, externalDir, posts, captioned, gets, qrs>>

NextPost ==
  \/ Startup
  \/ \E p \in 1..MaxPosts, u \in Uploads : PostReceive(p, u)
  \/ \E p \in 1..MaxPosts : PostResume(p)
  \/ \E p \in 1..MaxPosts : TimerFire(p)

\* ------------------------------------------------------- GET /uploads/*
HttpPrefix == <<"h", "t", "t", "p", ":", "/", "/">>
Port80     == <<":", "8", "0">>
QrBase     == HttpPrefix \o webDomain \o Port80 \o Slash \o UploadsSlash

\* the path of the link a QR code encodes (what a scanner then requests)
linkPath(text) ==
  SubSeq(text, Len(HttpPrefix \o webDomain \o Port80) + 1, Len(text))

\* download URLs a client may ask for: the links of the result pages, the
\* links of the QR codes served so far, and one of a file that never existed
GetUrls ==
  {posts[p].page.href : p \in {o \in 1..MaxPosts : posts[o].page.kind = "qr"}}
    \cup {linkPath(qrs[q].encoded) : q \in {o \in 1..MaxQrs : qrs[o].status = 200}}
    \cup {Slash \o UploadsSlash \o <<"z">>}

\* path.join(mainDir, req.url), relative to the main directory
joinMainDir(url) == SubSeq(url, 2, Len(url))

\* the request arrives and fs.promises.readFile is started
GetUploads(g, url) ==
  /\ started
  /\ Received < MaxRequests
  /\ gets[g].pc = "idle"
  /\ \A o \in 1..(g - 1) : gets[o].pc # "idle"
  /\ startsWith(pathname(url), Slash \o UploadsSlash)
  /\ gets' = [gets EXCEPT ![g] = [@ EXCEPT !.pc = "reading", !.url = url]]
  /\ UNCHANGED <<imgurVars, started, externalDir, disk, posts, timers, captioned, unlinked, qrs>>

\* the read is performed: it fails when the file does not exist
readFileCached(path) == "content"

readFile(path) == IF path \in disk THEN "content" ELSE "error"

GetUploadsRead(g) ==
  /\ gets[g].pc = "reading"
  /\ gets' = [gets EXCEPT ![g] =
       [@ EXCEPT !.pc = "read", !.reads = @ + 1,
                 !.data = readFile(joinMainDir(gets[g].url)),
                 !.afterUnlink = joinMainDir(gets[g].url) \in unlinked]]
  /\ UNCHANGED <<imgurVars, started, externalDir, disk, posts, timers, captioned, unlinked, qrs>>

\* the status of the download: res.send(data), or sendStatus(500) in the catch
downloadStatusOk(data) == 200

downloadStatus(data) == IF data = "error" THEN 500 ELSE 200

\* the handler continues after the await: res.send(data) or the catch
GetUploadsRespond(g) ==
  /\ gets[g].pc = "read"
  /\ gets' = [gets EXCEPT ![g] =
       [@ EXCEPT !.pc = "done",
                 !.status = downloadStatus(gets[g].data),
                 !.body = IF gets[g].data = "error" THEN "none" ELSE gets[g].data]]
  /\ UNCHANGED <<imgurVars, started, externalDir, disk, posts, timers, captioned, unlinked, qrs>>

\* ------------------------------------------------------------ GET /qr/*
\* decodeURIComponent, for the escape of "?"
RECURSIVE decodeURIComponent(_)
decodeURIComponent(s) ==
  IF s = <<>> THEN <<>>
  ELSE IF startsWith(s, <<"%", "3", "F">>)
    THEN <<"?">> \o decodeURIComponent(SubSeq(s, 4, Len(s)))
  ELSE <<Head(s)>> \o decodeURIComponent(Tail(s))

\* req.params[0] of the route /qr/*
qrParam(url) ==
  decodeURIComponent(SubSeq(pathname(url), Len(Slash \o QrSlash) + 1,
                            Len(pathname(url))))

qrText(imgUrl) == QrBase \o imgUrl

\* QR image URLs a client may ask for: the image of a result page, the same
\* with the name escaped, and the qrLink of a successful external upload
QrUrls ==
  {posts[p].page.qrSrc : p \in {o \in 1..MaxPosts : posts[o].page.kind = "qr"}}
    \cup {Slash \o QrSlash \o <<"a", "1", ".", "j", "p", "g", "%", "3", "F", "w">>}
    \cup {calls[c].qrLink : c \in {o \in 1..MaxCalls : calls[o].result = "success"}}

\* the whole handler; QRCode.toDataURL resolves (ok) or rejects
GetQr(q, url, ok) ==
  /\ started
  /\ Received < MaxRequests
  /\ qrs[q].pc = "idle"
  /\ \A o \in 1..(q - 1) : qrs[o].pc # "idle"
  /\ startsWith(pathname(url), Slash \o QrSlash)
  /\ qrs' = [qrs EXCEPT ![q] =
       [@ EXCEPT !.pc = "done", !.url = url, !.encodes = @ + 1, !.error = ~ok,
                 !.status = IF ok THEN 200 ELSE 500,
                 !.encoded = IF ok THEN qrText(qrParam(url)) ELSE <<>>]]
  /\ UNCHANGED <<imgurVars, started, externalDir, disk, posts, timers, captioned, unlinked, gets>>

NextGet ==
  \/ \E g \in 1..MaxGets : \E url \in GetUrls : GetUploads(g, url)
  \/ \E g \in 1..MaxGets : GetUploadsRead(g)
  \/ \E g \in 1..MaxGets : GetUploadsRespond(g)
  \/ \E q \in 1..MaxQrs : \E url \in QrUrls, ok \in BOOLEAN : GetQr(q, url, ok)

\* ------------------------------------------------------- uploadToImgur
\* the upload the caller hands over: multer stored it under a unique name
cachedPath(c) == UploadsSlash \o <<"b", Hex[c]>> \o JPG

ImgurStore(c) ==
  /\ started
  /\ Received < MaxRequests
  /\ calls[c].pc = "idle"
  /\ \A o \in 1..(c - 1) : calls[o].pc # "idle"
  /\ disk' = disk \cup {cachedPath(c)}
  /\ calls' = [calls EXCEPT ![c] = [@ EXCEPT !.pc = "cached", !.path = cachedPath(c)]]
  /\ UNCHANGED <<started, externalDir, posts, timers, captioned, unlinked, gets, qrs,
                 plausibleDomain, now, sentinel>>

\* the value read from rateLimitReset.txt, 0 when the file does not exist
readRateLimitReset == IF sentinel = NoSentinel THEN 0 ELSE sentinel

rateLimitedNever(rateLimitReset, t) == FALSE

rateLimited(rateLimitReset, t) == rateLimitReset > t

\* the synchronous part of the call: the sentinel check, then either the
\* refusal or the API request
ImgurCall(c) ==
  /\ calls[c].pc = "cached"
  /\ IF rateLimited(readRateLimitReset, now)
       THEN /\ disk' = disk \ {calls[c].path}
            /\ unlinked' = unlinked \cup {calls[c].path}
            /\ calls' = [calls EXCEPT ![c] =
                 [@ EXCEPT !.pc = "done", !.unlinks = @ + 1, !.resolves = @ + 1,
                           !.result = "blocked"]]
       ELSE /\ calls' = [calls EXCEPT ![c] =
                 [@ EXCEPT !.pc = "pending", !.apiRequests = @ + 1]]
            /\ UNCHANGED <<disk, unlinked>>
  /\ UNCHANGED <<started, externalDir, posts, timers, captioned, gets, qrs,
                 plausibleDomain, now, sentinel>>

\* body.data.link: the address of the image on the external host
dataLink(c) ==
  <<"h", "t", "t", "p", "s", ":", "/", "/", "i", ".", "c", "o", "/", "x", Hex[c]>>

\* the qrLink of a successful result
qrLink(link) == Slash \o QrSlash \o link

\* the first then: the sentinel is written when the quota is low
writesSentinel(r) == r.ok /\ r.remaining < RateLimitThreshold

\* the API answers and the promise chain runs to its end
ImgurResponse(c, r) ==
  /\ calls[c].pc = "pending"
  /\ r.throws => plausibleDomain
  /\ LET path == calls[c].path
         \* second then
         thenUnlink == r.ok /\ r.success
         thenUnlinkOk == thenUnlink /\ path \in disk
         d1 == IF thenUnlink THEN disk \ {path} ELSE disk
         thenThrows == \/ thenUnlink /\ ~thenUnlinkOk
                       \/ r.ok /\ plausibleDomain /\ r.throws
         \* catch
         caught == ~r.ok \/ thenThrows
         catchUnlinkOk == caught /\ path \in d1
         d2 == IF caught THEN d1 \ {path} ELSE d1
         nUnlinks == (IF thenUnlink THEN 1 ELSE 0) + (IF caught THEN 1 ELSE 0)
         nErrors == (IF thenUnlink /\ ~thenUnlinkOk THEN 1 ELSE 0)
                      + (IF caught /\ ~catchUnlinkOk THEN 1 ELSE 0)
         nResolves == (IF thenUnlinkOk THEN 1 ELSE 0)
                        + (IF catchUnlinkOk THEN 1 ELSE 0)
     IN /\ sentinel' = IF writesSentinel(r) THEN now + r.reset ELSE sentinel
        /\ disk' = d2
        /\ unlinked' = IF thenUnlinkOk \/ catchUnlinkOk
                         THEN unlinked \cup {path} ELSE unlinked
        /\ calls' = [calls EXCEPT ![c] =
             [@ EXCEPT !.pc = "done",
                       !.unlinks = @ + nUnlinks,
                       !.unlinkErrors = @ + nErrors,
                       !.resolves = @ + nResolves,
                       !.result = IF thenUnlinkOk THEN "success"
                                  ELSE IF catchUnlinkOk THEN "error" ELSE "none",
                       !.qrLink = IF thenUnlinkOk THEN qrLink(dataLink(c)) ELSE <<>>,
                       !.response = r]]
  /\ UNCHANGED <<started, externalDir, posts, timers, captioned, gets, qrs,
                 plausibleDomain, now>>

\* a second passes
Tick ==
  /\ now < MaxTime
  /\ now' = now + 1
  /\ UNCHANGED <<appVars, plausibleDomain, sentinel, calls>>

NextImgur ==
  \/ Startup
  \/ Tick
  \/ \E c \in 1..MaxCalls : ImgurStore(c)
  \/ \E c \in 1..MaxCalls : ImgurCall(c)
  \/ \E c \in 1..MaxCalls : \E r \in Responses : ImgurResponse(c, r)

Next == NextPost \/ NextGet

\* the upload server
Spec == Init /\ [][Next]_vars

\* the external-upload fallback
SpecImgur == Init /\ [][NextImgur]_vars

NextAll == Next \/ NextImgur

\* the server with the fallback
SpecAll == Init /\ [][NextAll]_vars

\* the upload server: the startup code runs, a suspended handler resumes and
\* a scheduled timer fires
FairSpec ==
  /\ Spec
  /\ WF_vars(Startup)
  /\ WF_vars(\E p \in 1..MaxPosts : PostResume(p))
  /\ WF_vars(\E p \in 1..MaxPosts : TimerFire(p))

\* ================================================================ claims

\* C1: in the default flow every file a POST upload stores in the uploads
\* directory is eventually deleted, whatever the outcome of the request.
C1_StoredUploadIsDeleted ==
  \A p \in 1..MaxPosts :
    (externalDir = NoDir /\ posts[p].path # <<>> /\ posts[p].path \in disk)
      ~> (posts[p].path \notin disk)

\* C2: an upload whose file has a supported MIME type is answered 200 with the
\* result page; a missing file or an unsupported type is answered 500, with
\* no title resolution, no deletion timer and no result page.
C2_UploadValidation ==
  \A p \in 1..MaxPosts :
    posts[p].pc = "done" =>
      IF posts[p].upload.mime \in supportedFileTypes
        THEN posts[p].status = 200 /\ posts[p].page.kind \in {"qr", "dir"}
        ELSE /\ posts[p].status = 500
             /\ posts[p].titleCalls = 0
             /\ posts[p].scheduled = 0
             /\ p \notin timers
             /\ posts[p].page = NoPage

C2_Witness ==
  \E p, o \in 1..MaxPosts :
    /\ posts[p].pc = "done" /\ posts[p].status = 200
    /\ posts[o].pc = "done" /\ posts[o].status = 500
    /\ posts[o].upload.mime = "text/plain"

\* C3: uploadToImgur deletes the cached file on every outcome of the call:
\* blocked by the sentinel, API success, API failure, body.success = false.
C3_CachedFileDeleted ==
  \A c \in 1..MaxCalls :
    calls[c].pc = "done" => calls[c].path \notin disk

\* C4: a call whose sentinel timestamp is greater than the current time sends
\* no API request and resolves with success = false; an API request is sent
\* only when the sentinel is absent or not in the future.
C4_SentinelGuardsRequest ==
  [][\A c \in 1..MaxCalls :
       /\ (calls[c].pc = "cached" /\ calls'[c].pc # "cached") =>
            IF sentinel # NoSentinel /\ sentinel > now
              THEN /\ calls'[c].apiRequests = 0
                   /\ calls'[c].pc = "done"
                   /\ calls'[c].result = "blocked"
              ELSE calls'[c].apiRequests = 1 /\ calls'[c].pc = "pending"
       /\ calls'[c].apiRequests > calls[c].apiRequests =>
            (sentinel = NoSentinel \/ sentinel <= now)]_vars

C4_Witness ==
  \E c, o \in 1..MaxCalls :
    /\ calls[c].result = "blocked" /\ calls[c].apiRequests = 0
    /\ calls[o].apiRequests = 1

\* C5: a response that reports a remaining quota below 10 overwrites the
\* sentinel with now + seconds-until-reset, for a successful and for a failing
\* response alike; a quota of 10 or more leaves the sentinel unchanged.
C5_SentinelOverwritten ==
  [][\A c \in 1..MaxCalls :
       (calls[c].pc = "pending" /\ calls'[c].pc = "done") =>
         IF calls'[c].response.remaining < 10
           THEN sentinel' = now + calls'[c].response.reset
           ELSE sentinel' = sentinel]_vars

\* C6: for a .jpg, .jpeg or .png file with EXIF Model 'Nintendo 3DS' whose
\* lower-cased Software is a substring of the lower-cased titleid of an entry
\* of the title table, the resolved title is the name of the first such
\* entry; otherwise it is the default title.
claimedTitle(path, upload) ==
  LET sw == toLowerCase(upload.software)
      hits == {i \in 1..Len(json3DS) : includes(toLowerCase(json3DS[i].titleid), sw)}
  IN IF /\ toLowerCase(extname(path)) \in {JPG, JPEG, PNG}
        /\ upload.model = "Nintendo 3DS"
        /\ upload.software # NoTag
        /\ hits # {}
       THEN json3DS[CHOOSE i \in hits : \A j \in hits : i <= j].name
       ELSE defaultImgTitle

C6_TitleByPartialId ==
  \A p \in 1..MaxPosts :
    posts[p].titleCalls > 0 =>
      posts[p].title = claimedTitle(posts[p].path, posts[p].upload)

C8_QrRoundTrip ==
  \A p \in 1..MaxPosts :
    posts[p].page.kind = "qr" =>
      /\ posts[p].page.qrSrc
           = Slash \o QrSlash \o filename(p, posts[p].upload)
      /\ \A q \in 1..MaxQrs :
           (qrs[q].status = 200 /\ qrs[q].url = posts[p].page.qrSrc) =>
             /\ qrs[q].encoded = QrBase \o filename(p, posts[p].upload)
             /\ linkPath(qrs[q].encoded) = Slash \o posts[p].path

\* C9: an invalid upload, a download whose file cannot be read and a QR
\* generation error each end with status 500 after a single attempt, and a
\* call of uploadToImgur sends at most one API request.
C9_FailuresAre500NoRetry ==
  /\ \A p \in 1..MaxPosts :
       (posts[p].pc = "done" /\ posts[p].upload.mime \notin supportedFileTypes)
         => posts[p].status = 500
  /\ \A g \in 1..MaxGets :
       /\ gets[g].reads <= 1
       /\ (gets[g].pc = "done" /\ gets[g].data = "error") => gets[g].status = 500
  /\ \A q \in 1..MaxQrs :
       /\ qrs[q].encodes <= 1
       /\ (qrs[q].pc = "done" /\ qrs[q].error) => qrs[q].status = 500
  /\ \A c \in 1..MaxCalls : calls[c].apiRequests <= 1

C9_Witness ==
  /\ \E p \in 1..MaxPosts : posts[p].pc = "done" /\ posts[p].status = 500
  /\ \E g \in 1..MaxGets :
       gets[g].pc = "done" /\ gets[g].data = "error" /\ gets[g].status = 500
  /\ \E c \in 1..MaxCalls :
       calls[c].pc = "done" /\ calls[c].result = "error" /\ calls[c].apiRequests = 1

\* C10: with an external directory an accepted upload is stored there, gets no
\* deletion timer, is never deleted, and its page shows the directory notice
\* without a QR code; without one, exactly one timer is scheduled per accepted
\* upload and the page shows the QR code and the delete delay.
C10_ExternalDirFrame ==
  \A p \in 1..MaxPosts :
    (posts[p].pc = "done" /\ posts[p].status = 200) =>
      IF externalDir # NoDir
        THEN /\ posts[p].path = externalDir \o Slash \o filename(p, posts[p].upload)
             /\ posts[p].path \in disk
             /\ posts[p].path \notin unlinked
             /\ posts[p].scheduled = 0
             /\ p \notin timers
             /\ posts[p].page.kind = "dir"
             /\ posts[p].page.dir = externalDir
             /\ posts[p].page.qrSrc = <<>>
        ELSE /\ posts[p].path = UploadsSlash \o filename(p, posts[p].upload)
             /\ posts[p].scheduled = 1
             /\ posts[p].page.kind = "qr"
             /\ posts[p].page.qrSrc # <<>>
             /\ posts[p].page.delay = 2

C10_Witness ==
  \E p \in 1..MaxPosts :
    /\ externalDir # NoDir
    /\ posts[p].pc = "done" /\ posts[p].status = 200
    /\ posts[p].path \in disk

\* C11: once the server accepts requests, the uploads folder holds no file of a
\* previous run: every file in it was stored by a request of this run.
C11_UploadsResetAtStartup ==
  started =>
    \A f \in disk :
      startsWith(f, UploadsSlash) =>
        \/ \E p \in 1..MaxPosts : posts[p].path = f
        \/ \E c \in 1..MaxCalls : calls[c].path = f

C11_Witness ==
  /\ started
  /\ \E f \in UNION Leftovers : f \in unlinked /\ f \notin disk
  /\ \E p \in 1..MaxPosts : posts[p].path \in disk

\* C12: every call of uploadToImgur ends with its promise resolved exactly
\* once, to a success or to a failure.
C12_ResolvedExactlyOnce ==
  \A c \in 1..MaxCalls :
    calls[c].pc = "done" =>
      (calls[c].resolves = 1 /\ calls[c].result \in {"success", "blocked", "error"})

\* C13: within one call of uploadToImgur the cached file is unlinked at most
\* once, also when the analytics call throws after a successful upload.
C13_UnlinkedAtMostOnce ==
  \A c \in 1..MaxCalls : calls[c].unlinks <= 1

\* C14: the QR image served for the qrLink of a successful external upload
\* encodes the address of the image on the external host.
C14_QrLinkEncodesExternalAddress ==
  \A c \in 1..MaxCalls :
    calls[c].result = "success" =>
      \A q \in 1..MaxQrs :
        (qrs[q].status = 200 /\ qrs[q].url = calls[c].qrLink) =>
          qrs[q].encoded = dataLink(c)
====
